---- MODULE Spec2Model ----
(***************************************************************************)
(* Model of the email template server (server.js): the template, venue     *)
(* and schema stores on disk, the Handlebars compile step, the CSS         *)
(* inlining step and the HTTP handlers built from them.                    *)
(*                                                                         *)
(* Text (template markup, variable values, HTML) is a sequence of          *)
(* characters; a few multi-character lexemes that neither Handlebars nor   *)
(* the JSON layer looks into ("<p>", "<style>", ...) are one character.    *)
(***************************************************************************)
EXTENDS Integers, Sequences, FiniteSets, TLC

VARIABLES
    venueFiles, \* the files of data/venues
    schemas,    \* the files of data/schemas
    req,        \* the request being answered
    res,        \* its response
    saved,      \* per venue key, the record last written to it
    saves,      \* the saves in flight, when requests overlap
    editor,     \* the editor page in the browser
    build       \* the build script's run

vars == <<venueFiles, schemas, req, res, saved, saves, editor, build>>

\* What the server's handlers, answering one request at a time, leave alone.
offServer == <<saves, editor, build>>

\* ------------------------------------------------------------------ bounds

\* A template's markup is at most MaxSegs segments of Segment long.
MaxSegs == 2

\* ------------------------------------------------------------- input sets

\* Names of resolved variables; "a" and "A" differ in casing only.
VarKeys == { <<"a">>, <<"A">> }

\* Values of variables; "&" is a character HTML escaping would rewrite.
VarValues == { <<"H">>, <<"&">> }

\* Every flat mapping from variable names to values.
Mappings == UNION { [D -> VarValues] : D \in SUBSET VarKeys }

EmptyMapping == [k \in {} |-> <<>>]

\* The pieces template markup is made of: the resolved variables {{a}} and
\* {{A}}, the deferred placeholder [A], an element, an unterminated
\* mustache and a style block.
Segments ==
    << <<"{", "{", "a", "}", "}">>,
       <<"{", "{", "A", "}", "}">>,
       <<"[", "A", "]">>,
       <<"<p>">>,
       <<"{", "{", "a">>,
       <<"<style>", "p{color:red}", "</style>">> >>

NumSegments == Len(Segments)

\* Template keys: a template's key names the segments of its markup.
TemplateKeys == UNION { [1..n -> 1..NumSegments] : n \in 0..MaxSegs }

\* A template key no file of data/templates carries.
NoTemplateKey == <<0>>

TemplateKeyInputs == TemplateKeys \cup {NoTemplateKey}

VenueKeys == {"SoulBar", "Unknown"}

\* A request without ?venue= (or with an empty one).
NoVenueParam == ""

\* The overrides of a preview request: absent (undefined / null) or a mapping.
NoOverrides == [given |-> FALSE, value |-> EmptyMapping]

OverridesInputs == {NoOverrides} \cup { [given |-> TRUE, value |-> m] : m \in Mappings }

\* ------------------------------------------------------------------ stores

RECURSIVE Concat(_)
\* The concatenation of a sequence of texts.
Concat(ss) == IF ss = <<>> THEN <<>> ELSE Head(ss) \o Concat(Tail(ss))

NoFile == [exists |-> FALSE, data |-> <<>>]

File(data) == [exists |-> TRUE, data |-> data]

\* data/templates/<templateKey>.html.hbs: read-only for the server.
templateFiles(templateKey) ==
    IF templateKey \in TemplateKeys
    THEN File(Concat([i \in 1..Len(templateKey) |-> Segments[templateKey[i]]]))
    ELSE NoFile

\* Errors a handler catches.
NoError == [name |-> "none", dir |-> "none"]

ENOENT(dir) == [name |-> "ENOENT", dir |-> dir]

SyntaxError(dir) == [name |-> "SyntaxError", dir |-> dir]

ParseError == [name |-> "ParseError", dir |-> "templates"]

Ok(value) == [ok |-> TRUE, value |-> value, error |-> NoError]

Fail(error) == [ok |-> FALSE, value |-> <<>>, error |-> error]

\* JSON text is a sequence of tokens: an opening brace, one token <<key,
\* value>> per member, a closing brace.
LBrace == <<"{">>

RBrace == <<"}">>

RECURSIVE Members(_, _)
\* The members of object m with the keys ks, one after the other.
Members(m, ks) ==
    IF ks = {} THEN <<>>
    ELSE LET k == CHOOSE x \in ks : TRUE
         IN  << <<k, m[k]>> >> \o Members(m, ks \ {k})

\* JSON.stringify of a flat object, as fs.writeJson writes it.
JsonStringify(m) == <<LBrace>> \o Members(m, DOMAIN m) \o <<RBrace>>

\* Whether JSON.parse accepts the text.
IsJson(data) ==
    /\ Len(data) >= 2
    /\ Len(data[1]) = 1 /\ data[1] = LBrace
    /\ Len(data[Len(data)]) = 1 /\ data[Len(data)] = RBrace
    /\ \A i \in 2..(Len(data) - 1) : Len(data[i]) = 2

\* The object JSON.parse builds: of two members with one key the later wins.
JsonObject(data) ==
    LET at == 2..(Len(data) - 1)
        last(k) == CHOOSE i \in at :
                       /\ data[i][1] = k
                       /\ \A j \in at : data[j][1] = k => j <= i
    IN  [k \in { data[i][1] : i \in at } |-> data[last(k)][2]]

\* JSON.parse(raw) of a file read from dir.
JsonParse(dir, data) ==
    IF IsJson(data) THEN Ok(JsonObject(data)) ELSE Fail(SyntaxError(dir))

\* The schema of template {{a}}: its one field, "a", is a text field.
SchemaFields == [k \in { <<"a">> } |-> <<"text">>]

\* The schema directory as deployed: one template has a schema, the
\* others have none.
DeployedSchemas == [k \in { <<1>> } |-> File(JsonStringify(SchemaFields))]

\* data/schemas/<templateKey>.json: read-only for the server.
schemaFiles(templateKey) ==
    IF templateKey \in DOMAIN schemas THEN schemas[templateKey] ELSE NoFile

\* fs.readFile(file, "utf8")
readFile(dir, file) == IF file.exists THEN Ok(file.data) ELSE Fail(ENOENT(dir))

loadTemplate(templateKey) == readFile("templates", templateFiles(templateKey))

\* The file of a venue key; a key outside the directory's files has none.
venueFile(files, venueKey) ==
    IF venueKey \in DOMAIN files THEN files[venueKey] ELSE NoFile

\* Faulty variant of loadVenue: a venue without a file loads as the empty record.
loadVenueOrEmpty(files, venueKey) ==
    LET raw == readFile("venues", venueFile(files, venueKey))
    IN  IF raw.ok THEN JsonParse("venues", raw.value) ELSE Ok(EmptyMapping)

loadVenue(files, venueKey) ==
    LET raw == readFile("venues", venueFile(files, venueKey))
    IN  IF raw.ok THEN JsonParse("venues", raw.value) ELSE raw

\* Faulty variant of saveVenue: the payload is merged into the record on disk.
saveVenueMerge(files, venueKey, payload) ==
    LET prior == IF files[venueKey].exists /\ IsJson(files[venueKey].data)
                 THEN JsonObject(files[venueKey].data) ELSE EmptyMapping
        merged == [k \in DOMAIN prior \cup DOMAIN payload |->
                      IF k \in DOMAIN payload THEN payload[k] ELSE prior[k]]
    IN  [files EXCEPT ![venueKey] = File(JsonStringify(merged))]

\* Faulty variant of saveVenue: only a venue that has a file is written.
saveVenueUpdateOnly(files, venueKey, payload) ==
    IF files[venueKey].exists
    THEN [files EXCEPT ![venueKey] = File(JsonStringify(payload))]
    ELSE files

\* Faulty variant of saveVenue: a record that is already there is kept, as
\* a reader would see it if records were held from their first load.
saveVenueKeepExisting(files, venueKey, payload) ==
    IF files[venueKey].exists
    THEN files
    ELSE [files EXCEPT ![venueKey] = File(JsonStringify(payload))]

\* The venue files after fs.writeJson(file, payload) has completed.
saveVenue(files, venueKey, payload) ==
    [files EXCEPT ![venueKey] = File(JsonStringify(payload))]

\* The names of the .json files of data/venues, without the extension.
listVenues(files) == { k \in DOMAIN files : files[k].exists }

listTemplates == { k \in TemplateKeyInputs : templateFiles(k).exists }

\* The schema null.
SchemaNull == [isNull |-> TRUE, fields |-> EmptyMapping]

\* null when the schema file does not exist, the parsed file otherwise.
loadSchema(templateKey) ==
    LET file == schemaFiles(templateKey)
    IN  IF file.exists
        THEN LET raw == readFile("schemas", file)
             IN  IF raw.ok
                 THEN LET json == JsonParse("schemas", raw.value)
                      IN  IF json.ok
                          THEN Ok([isNull |-> FALSE, fields |-> json.value])
                          ELSE json
                 ELSE raw
        ELSE Ok(SchemaNull)

\* --------------------------------------------------------------- Handlebars

Letters == {"a", "A", "H"}

\* The position of the first "}}" from position i on, 0 when there is none.
CloseAt(s, i) ==
    LET at == { j \in i..(Len(s) - 1) : s[j] = "}" /\ s[j + 1] = "}" }
    IN  IF at = {} THEN 0 ELSE CHOOSE j \in at : \A k \in at : j <= k

\* Whether the text between "{{" and "}}" is an identifier.
IsId(body) == body # <<>> /\ \A i \in 1..Len(body) : body[i] \in Letters

ContentStatement(c) == [type |-> "content", value |-> <<c>>]

MustacheStatement(path) == [type |-> "mustache", value |-> path]

RECURSIVE HandlebarsParseBrackets(_, _)
\* Faulty variant of HandlebarsParse: [NAME] is read as a mustache too.
HandlebarsParseBrackets(s, i) ==
    IF i > Len(s) THEN Ok(<<>>)
    ELSE IF s[i] = "{" /\ i < Len(s) /\ s[i + 1] = "{"
    THEN LET j == CloseAt(s, i + 2)
             body == SubSeq(s, i + 2, j - 1)
         IN  IF j = 0 \/ ~IsId(body)
             THEN Fail(ParseError)
             ELSE LET rest == HandlebarsParseBrackets(s, j + 2)
                  IN  IF rest.ok
                      THEN Ok(<<MustacheStatement(body)>> \o rest.value)
                      ELSE rest
    ELSE IF s[i] = "[" /\ i + 2 <= Len(s) /\ s[i + 2] = "]" /\ IsId(<<s[i + 1]>>)
    THEN LET rest == HandlebarsParseBrackets(s, i + 3)
         IN  IF rest.ok
             THEN Ok(<<MustacheStatement(<<s[i + 1]>>)>> \o rest.value)
             ELSE rest
    ELSE LET rest == HandlebarsParseBrackets(s, i + 1)
         IN  IF rest.ok THEN Ok(<<ContentStatement(s[i])>> \o rest.value) ELSE rest

RECURSIVE HandlebarsParseLenient(_, _)
\* Faulty variant of HandlebarsParse: a mustache that does not close ends the
\* template instead of failing.
HandlebarsParseLenient(s, i) ==
    IF i > Len(s) THEN Ok(<<>>)
    ELSE IF s[i] = "{" /\ i < Len(s) /\ s[i + 1] = "{"
    THEN LET j == CloseAt(s, i + 2)
             body == SubSeq(s, i + 2, j - 1)
         IN  IF j = 0 \/ ~IsId(body)
             THEN Ok(<<>>)
             ELSE LET rest == HandlebarsParseLenient(s, j + 2)
                  IN  Ok(<<MustacheStatement(body)>> \o rest.value)
    ELSE LET rest == HandlebarsParseLenient(s, i + 1)
         IN  Ok(<<ContentStatement(s[i])>> \o rest.value)

RECURSIVE HandlebarsParse(_, _)
\* The statements of the markup s from position i on: "{{" opens a mustache
\* that must close with "}}", everything else is content.
HandlebarsParse(s, i) ==
    IF i > Len(s) THEN Ok(<<>>)
    ELSE IF s[i] = "{" /\ i < Len(s) /\ s[i + 1] = "{"
    THEN LET j == CloseAt(s, i + 2)
             body == SubSeq(s, i + 2, j - 1)
         IN  IF j = 0 \/ ~IsId(body)
             THEN Fail(ParseError)
             ELSE LET rest == HandlebarsParse(s, j + 2)
                  IN  IF rest.ok
                      THEN Ok(<<MustacheStatement(body)>> \o rest.value)
                      ELSE rest
    ELSE LET rest == HandlebarsParse(s, i + 1)
         IN  IF rest.ok THEN Ok(<<ContentStatement(s[i])>> \o rest.value) ELSE rest

\* Handlebars.Utils.escapeExpression
escapeExpression(v) ==
    [i \in 1..Len(v) |-> IF v[i] = "&" THEN "&amp;" ELSE v[i]]

\* Faulty variant of lookupProperty: a missing name prints as "undefined".
lookupPropertyUndefined(context, name) ==
    IF name \in DOMAIN context THEN context[name] ELSE <<"undefined">>

\* The value of a name in the context: a missing one is undefined, which
\* is appended as the empty string.
lookupProperty(context, name) ==
    IF name \in DOMAIN context THEN context[name] ELSE <<>>

RECURSIVE HandlebarsExec(_, _, _)
\* The output of the statements for a context.
HandlebarsExec(statements, context, noEscape) ==
    IF statements = <<>> THEN <<>>
    ELSE LET st == Head(statements)
             out == IF st.type = "content" THEN st.value
                    ELSE IF noEscape THEN lookupProperty(context, st.value)
                    ELSE escapeExpression(lookupProperty(context, st.value))
         IN  out \o HandlebarsExec(Tail(statements), context, noEscape)

\* Handlebars.compile(tplSrc, { noEscape })(context)
HandlebarsCompile(tplSrc, noEscape, context) ==
    LET ast == HandlebarsParse(tplSrc, 1)
    IN  IF ast.ok THEN Ok(HandlebarsExec(ast.value, context, noEscape)) ELSE ast

\* -------------------------------------------------------------------- juice

\* Whether a style block of the document holds the rule p{color:red}.
HasRule(html) ==
    \E i \in 1..Len(html) :
        /\ html[i] = "<style>"
        /\ \E j \in (i + 1)..Len(html) :
             /\ html[j] = "p{color:red}"
             /\ \A n \in i..j : html[n] # "</style>"
             /\ \E k \in (j + 1)..Len(html) : html[k] = "</style>"

\* Faulty variant of inlineCss: juice with removeStyleTags true, the style
\* block is dropped once its rules are on the elements.
IsNoStyleToken(c) == c \notin {"<style>", "p{color:red}", "</style>"}

inlineCssRemoveStyleTags(html) ==
    SelectSeq([i \in 1..Len(html) |->
                  IF html[i] = "<p>" /\ HasRule(html)
                  THEN "<p style=\"color: red;\">"
                  ELSE html[i]],
              IsNoStyleToken)

\* juice(html, { applyStyleTags: true, removeStyleTags: false }): the
\* declarations of a rule go onto the elements it matches, the style block
\* stays.
inlineCss(html) ==
    [i \in 1..Len(html) |->
        IF html[i] = "<p>" /\ HasRule(html)
        THEN "<p style=\"color: red;\">"
        ELSE html[i]]

\* ----------------------------------------------------------------- handlers

NoHtml == [present |-> FALSE, text |-> <<>>]

Html(text) == [present |-> TRUE, text |-> text]

\* A response: its status, the rendered HTML it carries, the error it
\* reports and the JSON data it carries.
Response(status, html, error, data) ==
    [status |-> status, html |-> html, error |-> error, data |-> data]

NoData == <<>>

\* The outcomes of Promise.all of two settled promises: both values, or
\* the error of whichever rejected promise is seen first.
PromiseAll(p, q) ==
    IF p.ok /\ q.ok THEN { Ok(<<p.value, q.value>>) }
    ELSE { Fail(x.error) : x \in { y \in {p, q} : ~y.ok } }

\* overrides || {}
OrEmpty(overrides) == IF overrides.given THEN overrides.value ELSE EmptyMapping

\* Faulty variant of resolve: { ...overrides, ...base }, the record wins.
resolveLeftBiased(base, overrides) ==
    LET over == IF overrides.given THEN overrides.value ELSE EmptyMapping
    IN  [k \in DOMAIN base \cup DOMAIN over |->
            IF k \in DOMAIN base THEN base[k] ELSE over[k]]

\* Faulty variant of resolve: overrides || base, the record only stands in for
\* absent overrides.
resolveOverridesOrBase(base, overrides) ==
    IF overrides.given THEN overrides.value ELSE base

\* { ...base, ...(overrides || {}) }
resolve(base, overrides) ==
    LET over == OrEmpty(overrides)
    IN  [k \in DOMAIN base \cup DOMAIN over |->
            IF k \in DOMAIN over THEN over[k] ELSE base[k]]

\* The try block of GET /render/:templateKey after Promise.all has settled.
renderSend(all) ==
    IF ~all.ok THEN Response(500, NoHtml, all.error, NoData)
    ELSE LET html == HandlebarsCompile(all.value[1], TRUE, all.value[2])
         IN  IF html.ok
             THEN Response(200, Html(inlineCss(html.value)), NoError, NoData)
             ELSE Response(500, NoHtml, html.error, NoData)

\* Faulty variant of render: a venue record that lacks a field of the
\* template's schema is refused.
renderValidated(files, templateKey, venue) ==
    LET schema == loadSchema(templateKey)
        record == loadVenue(files, venue)
    IN  IF venue = NoVenueParam
        THEN { Response(400, NoHtml, NoError, NoData) }
        ELSE IF /\ schema.ok /\ ~schema.value.isNull /\ record.ok
                /\ \E k \in DOMAIN schema.value.fields : k \notin DOMAIN record.value
        THEN { Response(500, NoHtml,
                        [name |-> "ValidationError", dir |-> "schemas"], NoData) }
        ELSE { renderSend(all) :
                 all \in PromiseAll(loadTemplate(templateKey), loadVenue(files, venue)) }

\* The responses GET /render/:templateKey?venue= can give.
render(files, templateKey, venue) ==
    IF venue = NoVenueParam
    THEN { Response(400, NoHtml, NoError, NoData) }
    ELSE { renderSend(all) :
             all \in PromiseAll(loadTemplate(templateKey), loadVenue(files, venue)) }

\* Faulty variant of previewSend: the template is compiled without
\* noEscape, so the preview HTML-escapes the values.
previewSendEscaped(all, overrides) ==
    IF ~all.ok THEN Response(500, NoHtml, all.error, NoData)
    ELSE LET context == resolve(all.value[2], overrides)
             html == HandlebarsCompile(all.value[1], FALSE, context)
         IN  IF html.ok
             THEN Response(200, Html(inlineCss(html.value)), NoError, NoData)
             ELSE Response(500, NoHtml, html.error, NoData)

\* The try block of POST /api/preview after Promise.all has settled.
previewSend(all, overrides) ==
    IF ~all.ok THEN Response(500, NoHtml, all.error, NoData)
    ELSE LET context == resolve(all.value[2], overrides)
             html == HandlebarsCompile(all.value[1], TRUE, context)
         IN  IF html.ok
             THEN Response(200, Html(inlineCss(html.value)), NoError, NoData)
             ELSE Response(500, NoHtml, html.error, NoData)

\* The responses POST /api/preview can give.
preview(files, templateKey, venueKey, overrides) ==
    { previewSend(all, overrides) :
        all \in PromiseAll(loadTemplate(templateKey), loadVenue(files, venueKey)) }

\* GET /api/venues/:id
getVenue(files, id) ==
    LET json == loadVenue(files, id)
    IN  IF json.ok THEN Response(200, NoHtml, NoError, json.value)
        ELSE Response(404, NoHtml, [name |-> "Venue not found", dir |-> "venues"], NoData)

\* GET /api/schema/:templateKey
getSchema(templateKey) ==
    LET schema == loadSchema(templateKey)
    IN  IF schema.ok THEN Response(200, NoHtml, NoError, schema.value)
        ELSE Response(500, NoHtml, schema.error, NoData)

\* Whether String(e), the text a handler reports an error with, names the
\* file the error is about, and with it the key: the ENOENT message of fs
\* carries the path; the parse error of Handlebars carries a line number
\* and an excerpt of the markup, the one of JSON.parse a position.
MessageNamesKey(error) == error.name = "ENOENT"

\* ------------------------------------------------------------ state machine

\* The request a handler answers; prior is the file the venue key of a save
\* had before the save.
Request(op, templateKey, venueKey, overrides, payload, prior) ==
    [op |-> op, templateKey |-> templateKey, venueKey |-> venueKey,
     overrides |-> overrides, payload |-> payload, prior |-> prior]

NoResponse == Response(0, NoHtml, NoError, NoData)

NoRequest == Request("none", <<>>, NoVenueParam, NoOverrides, EmptyMapping, NoFile)

\* The record last written to a venue key, at deployment or by a save.
NotWritten == [written |-> FALSE, payload |-> EmptyMapping]

Written(payload) == [written |-> TRUE, payload |-> payload]

\* No request overlaps another, no editor page is open, no build runs.
NoSaves == <<>>

NoEditor == <<>>

NoBuild == <<>>

\* The data directory as deployed: one venue has a record, the other none.
InitServer ==
    /\ \E m \in Mappings :
           /\ venueFiles = [k \in VenueKeys |->
                   IF k = "SoulBar" THEN File(JsonStringify(m)) ELSE NoFile]
           /\ saved = [k \in VenueKeys |->
                   IF k = "SoulBar" THEN Written(m) ELSE NotWritten]
    /\ req = NoRequest
    /\ res = NoResponse

Init ==
    /\ InitServer
    /\ schemas = DeployedSchemas
    /\ saves = NoSaves
    /\ editor = NoEditor
    /\ build = NoBuild

\* The server handles one request at a time: no request is being answered.
Idle == req = NoRequest

Render(templateKey, venue) ==
    /\ req' = Request("render", templateKey, venue, NoOverrides, EmptyMapping, NoFile)
    /\ res' \in render(venueFiles, templateKey, venue)
    /\ UNCHANGED <<venueFiles, schemas, saved, offServer>>

\* Faulty variant of Preview: the merged variables of a preview that finds
\* its venue are written back as the venue's record.
PreviewPersisting(templateKey, venueKey, overrides) ==
    /\ req' = Request("preview", templateKey, venueKey, overrides, EmptyMapping, NoFile)
    /\ res' \in preview(venueFiles, templateKey, venueKey, overrides)
    /\ venueFiles' =
         IF loadVenue(venueFiles, venueKey).ok
         THEN saveVenue(venueFiles, venueKey,
                        resolve(loadVenue(venueFiles, venueKey).value, overrides))
         ELSE venueFiles
    /\ UNCHANGED <<schemas, saved, offServer>>

Preview(templateKey, venueKey, overrides) ==
    /\ req' = Request("preview", templateKey, venueKey, overrides, EmptyMapping, NoFile)
    /\ res' \in preview(venueFiles, templateKey, venueKey, overrides)
    /\ UNCHANGED <<venueFiles, schemas, saved, offServer>>

GetVenues ==
    /\ req' = Request("getVenues", <<>>, NoVenueParam, NoOverrides, EmptyMapping, NoFile)
    /\ res' = Response(200, NoHtml, NoError, listVenues(venueFiles))
    /\ UNCHANGED <<venueFiles, schemas, saved, offServer>>

GetVenue(id) ==
    /\ req' = Request("getVenue", <<>>, id, NoOverrides, EmptyMapping, NoFile)
    /\ res' = getVenue(venueFiles, id)
    /\ UNCHANGED <<venueFiles, schemas, saved, offServer>>

PutVenue(id, body) ==
    /\ req' = Request("putVenue", <<>>, id, NoOverrides, body, venueFiles[id])
    /\ venueFiles' = saveVenue(venueFiles, id, body)
    /\ res' = Response(200, NoHtml, NoError, [ok |-> TRUE])
    /\ saved' = [saved EXCEPT ![id] = Written(body)]
    /\ UNCHANGED <<schemas, offServer>>

GetTemplates ==
    /\ req' = Request("getTemplates", <<>>, NoVenueParam, NoOverrides, EmptyMapping, NoFile)
    /\ res' = Response(200, NoHtml, NoError, listTemplates)
    /\ UNCHANGED <<venueFiles, schemas, saved, offServer>>

GetSchema(templateKey) ==
    /\ req' = Request("getSchema", templateKey, NoVenueParam, NoOverrides, EmptyMapping, NoFile)
    /\ res' = getSchema(templateKey)
    /\ UNCHANGED <<venueFiles, schemas, saved, offServer>>

\* The client has received the response; the exchange is over.
Receive ==
    /\ ~Idle
    /\ req' = NoRequest
    /\ res' = NoResponse
    /\ UNCHANGED <<venueFiles, schemas, saved, offServer>>

\* A request arrives while no other is being answered, and its handler
\* answers it; or the response is received.
Next ==
    \/ Idle /\ \E t \in TemplateKeyInputs, v \in VenueKeys \cup {NoVenueParam} :
                  Render(t, v)
    \/ Idle /\ \E t \in TemplateKeyInputs, v \in VenueKeys \cup {NoVenueParam},
                  o \in OverridesInputs : Preview(t, v, o)
    \/ Idle /\ GetVenues
    \/ Idle /\ \E v \in VenueKeys : GetVenue(v)
    \/ Idle /\ \E v \in VenueKeys, m \in Mappings : PutVenue(v, m)
    \/ Idle /\ GetTemplates
    \/ Idle /\ \E t \in TemplateKeyInputs : GetSchema(t)
    \/ Receive

Spec == Init /\ [][Next]_vars

\* ------------------------------------------------------ overlapping saves

\* Two PUT /api/venues/:id requests the server may be handling at once.
Writers == {"first", "second"}

\* A PUT request: where its handler is, the key and the body it carries and
\* the status it has answered with (0: none yet).
Save(pc, venueKey, payload, status) ==
    [pc |-> pc, venueKey |-> venueKey, payload |-> payload, status |-> status]

IdleSave == Save("idle", "SoulBar", EmptyMapping, 0)

\* The bodies of the PUT requests: mappings of no, one and two entries, so
\* that their JSON texts differ in length.
SaveBodies ==
    { EmptyMapping,
      [k \in { <<"a">> } |-> <<"H">>],
      [k \in VarKeys |-> IF k = <<"a">> THEN <<"&">> ELSE <<"H">>] }

InitConc ==
    /\ InitServer
    /\ schemas = DeployedSchemas
    /\ saves = [w \in Writers |-> IdleSave]
    /\ editor = NoEditor
    /\ build = NoBuild

\* Everything but the venue files and the saves in progress.
offSaves == <<schemas, req, res, editor, build>>

\* The handler starts: saveVenue calls fs.writeJson, which stringifies the
\* body and asks for the file to be opened.
PutArrives(w, id, body) ==
    /\ saves[w].pc = "idle"
    /\ saves' = [saves EXCEPT ![w] = Save("open", id, body, 0)]
    /\ UNCHANGED <<venueFiles, saved, offSaves>>

\* fs.writeFile opens the file with flag 'w': it is created if missing and
\* truncated to length zero.
OpenTruncate(w) ==
    /\ saves[w].pc = "open"
    /\ venueFiles' = [venueFiles EXCEPT ![saves[w].venueKey] = File(<<>>)]
    /\ saves' = [saves EXCEPT ![w].pc = "write"]
    /\ UNCHANGED <<saved, offSaves>>

\* The text of a file after data is written from offset zero through a
\* descriptor of its own: what the file holds beyond the data stays.
WriteAtStart(old, data) == data \o SubSeq(old, Len(data) + 1, Len(old))

\* fs.writeFile writes the JSON text through its descriptor and closes it:
\* the write of this save has completed.
WriteData(w) ==
    /\ saves[w].pc = "write"
    /\ venueFiles' =
         [venueFiles EXCEPT ![saves[w].venueKey] =
             File(WriteAtStart(venueFiles[saves[w].venueKey].data,
                               JsonStringify(saves[w].payload)))]
    /\ saved' = [saved EXCEPT ![saves[w].venueKey] = Written(saves[w].payload)]
    /\ saves' = [saves EXCEPT ![w].pc = "respond"]
    /\ UNCHANGED offSaves

\* await saveVenue(...) returns and the handler answers { ok: true }.
PutResponds(w) ==
    /\ saves[w].pc = "respond"
    /\ saves' = [saves EXCEPT ![w].pc = "idle", ![w].status = 200]
    /\ UNCHANGED <<venueFiles, saved, offSaves>>

\* The template the requests that overlap the saves ask for: {{a}}{{A}}.
ReaderTemplates == { <<1, 2>> }

\* A render or a preview reads the venue file once (fs.readFile in
\* loadVenue) and touches nothing else that a save touches: it is handled
\* whole at the moment of its read, between any two steps of the saves.
NextConc ==
    \/ \E w \in Writers, id \in VenueKeys, body \in SaveBodies : PutArrives(w, id, body)
    \/ \E w \in Writers : OpenTruncate(w)
    \/ \E w \in Writers : WriteData(w)
    \/ \E w \in Writers : PutResponds(w)
    \/ \E t \in ReaderTemplates, v \in VenueKeys : Render(t, v)
    \/ \E t \in ReaderTemplates, v \in VenueKeys : Preview(t, v, NoOverrides)

\* The server with two saves that may overlap, and requests that read
\* while they run.
SpecConc == InitConc /\ [][NextConc]_vars

\* ------------------------------------------------------------- the editor

\* The preview requests the editor may have unanswered at a time.
MaxInFlight == 2

\* TPL_DEFAULT, the template the editor starts with: {{a}}{{A}}.
TPL_DEFAULT == <<1, 2>>

\* What the user types into the field A.
EditValues == { <<"H">> }

\* The body of a POST /api/preview of the editor.
PreviewRequest(templateKey, venueKey, values) ==
    [templateKey |-> templateKey, venueKey |-> venueKey, values |-> values]

NoPreviewRequest == PreviewRequest(<<>>, "", EmptyMapping)

\* The html state: the text shown in the iframe and the request it is the
\* response to.  origin, in the editor's state, is the venue whose load
\* put the values into the form ("": none yet).
Shown(request, text) == [request |-> request, text |-> text]

\* Everything but the editor and the venue files.
offEditor == <<schemas, req, res, saved, saves, build>>

\* The page has mounted: venue '', values {}, html '', the GET of the venue
\* list is unanswered and the first preview timer is running.  On the
\* server both venues have a record.
InitEditor ==
    /\ venueFiles = [k \in VenueKeys |->
                        File(JsonStringify([n \in { <<"a">> } |->
                            IF k = "SoulBar" THEN <<"H">> ELSE <<"&">>]))]
    /\ schemas = DeployedSchemas
    /\ req = NoRequest
    /\ res = NoResponse
    /\ saved = [k \in VenueKeys |-> NotWritten]
    /\ saves = NoSaves
    /\ build = NoBuild
    /\ editor = [listPending |-> TRUE,
                 venue |-> "",
                 templateKey |-> TPL_DEFAULT,
                 values |-> EmptyMapping,
                 origin |-> "",
                 html |-> Shown(NoPreviewRequest, <<>>),
                 timer |-> TRUE,
                 loads |-> {},
                 previews |-> {}]

\* The response of GET /api/venues arrives: with no venue selected the
\* first of the list is selected, which starts the load of its values and
\* restarts the preview timer.
VenueListArrives(first) ==
    /\ editor.listPending
    /\ first \in listVenues(venueFiles)
    /\ editor' = [editor EXCEPT !.listPending = FALSE,
                                !.venue = first,
                                !.loads = @ \cup {first},
                                !.timer = TRUE]
    /\ UNCHANGED <<venueFiles, offEditor>>

\* The user picks another venue in the select: setVenue, the venue-load
\* effect sends its GET, the preview effect restarts its timer.  The
\* values stay as they are.
SelectVenue(v) ==
    /\ ~editor.listPending
    /\ v \in listVenues(venueFiles) /\ v # editor.venue
    /\ editor' = [editor EXCEPT !.venue = v,
                                !.loads = @ \cup {v},
                                !.timer = TRUE]
    /\ UNCHANGED <<venueFiles, offEditor>>

\* The response of a GET /api/venues/:id arrives: setValues(r.data),
\* whatever venue is selected by now.
VenueLoadArrives(v) ==
    /\ v \in editor.loads
    /\ LET r == getVenue(venueFiles, v)
       IN  editor' = IF r.status = 200
                     THEN [editor EXCEPT !.loads = @ \ {v},
                                         !.values = r.data,
                                         !.origin = v,
                                         !.timer = TRUE]
                     ELSE [editor EXCEPT !.loads = @ \ {v}]
    /\ UNCHANGED <<venueFiles, offEditor>>

\* The user changes a field: onChange(key, val).
Edit(key, val) ==
    /\ editor' = [editor EXCEPT
                     !.values = [k \in DOMAIN @ \cup {key} |->
                                    IF k = key THEN val ELSE @[k]],
                     !.timer = TRUE]
    /\ UNCHANGED <<venueFiles, offEditor>>

\* 250 ms have passed since the last change: the preview request is sent,
\* unless no venue is selected.
TimerFires ==
    /\ editor.timer
    /\ Cardinality(editor.previews) < MaxInFlight
    /\ editor' = [editor EXCEPT
                     !.timer = FALSE,
                     !.previews =
                         IF editor.venue = "" THEN @
                         ELSE @ \cup {PreviewRequest(editor.templateKey,
                                                     editor.venue, editor.values)}]
    /\ UNCHANGED <<venueFiles, offEditor>>

\* What the then and the catch of the preview request put into html.
PreviewHtml(response) ==
    IF response.status = 200 THEN response.html.text ELSE <<"Preview error.">>

\* The response of a preview request arrives, in whatever order the
\* requests were sent: setHtml.
PreviewArrives(request) ==
    /\ request \in editor.previews
    /\ \E response \in preview(venueFiles, request.templateKey, request.venueKey,
                                 [given |-> TRUE, value |-> request.values]) :
         editor' = [editor EXCEPT !.previews = @ \ {request},
                                  !.html = Shown(request, PreviewHtml(response))]
    /\ UNCHANGED <<venueFiles, offEditor>>

\* The user clicks Save Venue JSON: PUT /api/venues/<venue> with values,
\* which the server saves.
ClickSave ==
    /\ editor.venue # ""
    /\ venueFiles' = saveVenue(venueFiles, editor.venue, editor.values)
    /\ UNCHANGED <<editor, offEditor>>

NextEditor ==
    \/ \E v \in VenueKeys : VenueListArrives(v)
    \/ \E v \in VenueKeys : SelectVenue(v)
    \/ \E v \in VenueKeys : VenueLoadArrives(v)
    \/ \E val \in EditValues : Edit(<<"A">>, val)
    \/ TimerFires
    \/ \E request \in editor.previews : PreviewArrives(request)
    \/ ClickSave

\* The editor page against the server.
SpecEditor == InitEditor /\ [][NextEditor]_vars

\* ------------------------------------------------------- the build script

\* CONFIG.deploymentGuides
deploymentGuides == {"DEPLOY_README.md", "PLESK_SETUP_GUIDE.md", "QUICK_FIX_500_ERROR.md"}

\* The entries DEPLOY_DIR can hold: the guides, the package directory (app)
\* and the two archives.
DeployEntries ==
    deploymentGuides \cup {"app", "lonestar_email_builder.zip", "lonestar_email_builder.tar.gz"}

\* A run of scripts/build-and-package.js: the step main() is at, the
\* TEST_ONLY setting, the entries of DEPLOY_DIR, the entries of the two
\* archives and the way the process ended.
BuildState(pc, testOnly, deploy, zip, tar, exit) ==
    [pc |-> pc, testOnly |-> testOnly, deploy |-> deploy,
     zip |-> zip, tar |-> tar, exit |-> exit]

\* Everything but the build.
offBuild == <<venueFiles, schemas, req, res, saved, saves, editor>>

\* The script starts on a tree that may hold the deploy directory of an
\* earlier run.
InitBuild ==
    /\ InitServer
    /\ schemas = DeployedSchemas
    /\ saves = NoSaves
    /\ editor = NoEditor
    /\ \E testOnly \in BOOLEAN, deploy \in SUBSET DeployEntries :
         build = BuildState("validateEnvironment", testOnly, deploy, {}, {}, "running")

\* A step of main() that has no effect on DEPLOY_DIR's guides or archives
\* and either throws (the catch of main exits with code 1) or returns.
Step(pc, next) ==
    /\ build.pc = pc /\ build.exit = "running"
    /\ \/ build' = [build EXCEPT !.pc = next]
       \/ build' = [build EXCEPT !.pc = "exit", !.exit = "failed"]
    /\ UNCHANGED offBuild

validateEnvironment == Step("validateEnvironment", "cleanPreviousBuilds")

\* DEPLOY_DIR is removed and created afresh with an empty PACKAGE_DIR.
cleanPreviousBuilds ==
    /\ build.pc = "cleanPreviousBuilds" /\ build.exit = "running"
    /\ build' = [build EXCEPT !.pc = "buildFrontend", !.deploy = {"app"}]
    /\ UNCHANGED offBuild

buildFrontend == Step("buildFrontend", "prepareDeploymentPackage")

prepareDeploymentPackage == Step("prepareDeploymentPackage", "createConfigFiles")

createConfigFiles == Step("createConfigFiles", "validatePackageStructure")

validatePackageStructure == Step("validatePackageStructure", "testBuild")

\* testBuild, then the TEST_ONLY return of main().
testBuild ==
    /\ build.pc = "testBuild" /\ build.exit = "running"
    /\ \/ build' = [build EXCEPT !.pc = "exit", !.exit = "failed"]
       \/ build' = IF build.testOnly
                   THEN [build EXCEPT !.pc = "exit", !.exit = "ok"]
                   ELSE [build EXCEPT !.pc = "createPackages"]
    /\ UNCHANGED offBuild

\* What an archive gets: PACKAGE_DIR as app, and each guide that exists in
\* DEPLOY_DIR when the archive is put together.
ArchiveEntries(deploy) ==
    {"app"} \cup { guide \in deploymentGuides : guide \in deploy }

createPackages ==
    /\ build.pc = "createPackages" /\ build.exit = "running"
    /\ LET zip == ArchiveEntries(build.deploy)
           afterZip == build.deploy \cup {"lonestar_email_builder.zip"}
           tar == ArchiveEntries(afterZip)
       IN  build' = [build EXCEPT
                        !.pc = "generateDeploymentInstructions",
                        !.zip = zip,
                        !.tar = tar,
                        !.deploy = afterZip \cup {"lonestar_email_builder.tar.gz"}]
    /\ UNCHANGED offBuild

\* The three guides are written into DEPLOY_DIR; main() then returns.
generateDeploymentInstructions ==
    /\ build.pc = "generateDeploymentInstructions" /\ build.exit = "running"
    /\ build' = [build EXCEPT !.pc = "exit", !.exit = "ok",
                               !.deploy = build.deploy \cup deploymentGuides]
    /\ UNCHANGED offBuild

NextBuild ==
    \/ validateEnvironment
    \/ cleanPreviousBuilds
    \/ buildFrontend
    \/ prepareDeploymentPackage
    \/ createConfigFiles
    \/ validatePackageStructure
    \/ testBuild
    \/ createPackages
    \/ generateDeploymentInstructions

\* One run of the build script.
SpecBuild == InitBuild /\ [][NextBuild]_vars

\* ---------------------------------------------- the schema store changes

\* What data/schemas can hold for the template {{a}}: nothing, a schema
\* with the field "a", a schema with the field "A".
SchemaStores ==
    { [k \in {} |-> NoFile],
      DeployedSchemas,
      [k \in { <<1>> } |-> File(JsonStringify([f \in { <<"A">> } |-> <<"text">>]))] }

\* The templates of at most one segment, and the key of no template.
SchemaTemplateInputs == { t \in TemplateKeyInputs : Len(t) <= 1 }

\* The files of data/schemas are replaced (a deployment, an edit on disk).
EditSchema(store) ==
    /\ schemas # store
    /\ schemas' = store
    /\ UNCHANGED <<venueFiles, req, res, saved, offServer>>

NextSchema ==
    \/ Idle /\ \E t \in SchemaTemplateInputs, v \in VenueKeys \cup {NoVenueParam} :
                  Render(t, v)
    \/ Idle /\ \E t \in SchemaTemplateInputs, v \in VenueKeys \cup {NoVenueParam},
                  o \in OverridesInputs : Preview(t, v, o)
    \/ Idle /\ \E v \in VenueKeys, m \in Mappings : PutVenue(v, m)
    \/ Idle /\ \E t \in SchemaTemplateInputs : GetSchema(t)
    \/ Idle /\ \E store \in SchemaStores : EditSchema(store)
    \/ Receive

\* The server with a schema store that changes under it.
SpecSchema == Init /\ [][NextSchema]_vars

\* ------------------------------------------------------------------- claims

\* What the answered request was about.
Markup == templateFiles(req.templateKey).data

TemplateExists == templateFiles(req.templateKey).exists

VenueExists == venueFile(venueFiles, req.venueKey).exists

\* The venue record on disk of the answered request (venues exist only as
\* written by JsonStringify here, so the record is the parsed file).
VenueRecord == JsonObject(venueFile(venueFiles, req.venueKey).data)

IsRender == req.op = "render" /\ req.venueKey # NoVenueParam

IsPreview == req.op = "preview"

\* Reference semantics of a template, segment by segment: a segment that
\* opens a mustache stands for the value of the name it holds (nothing when
\* the mapping has no such key), any other segment stands for itself.
IsLetter(c) == c \in Letters

IsMustacheSegment(seg) == Len(seg) >= 2 /\ seg[1] = "{" /\ seg[2] = "{"

IsClosedSegment(seg) ==
    IsMustacheSegment(seg) => seg[Len(seg)] = "}" /\ seg[Len(seg) - 1] = "}"

WellFormed(templateKey) ==
    \A i \in 1..Len(templateKey) : IsClosedSegment(Segments[templateKey[i]])

ValueIn(m, name) == IF name \in DOMAIN m THEN m[name] ELSE <<>>

ExpectedHtml(templateKey, m) ==
    Concat([i \in 1..Len(templateKey) |->
               LET seg == Segments[templateKey[i]]
               IN  IF IsMustacheSegment(seg)
                   THEN ValueIn(m, SelectSeq(seg, IsLetter))
                   ELSE seg])

\* The deferred placeholder [A] and where a text holds it.
Placeholder == <<"[", "A", "]">>

PlaceholderAt(s, i) ==
    i + 2 <= Len(s) /\ SubSeq(s, i, i + 2) = Placeholder

PlaceholdersIn(s) == { i \in 1..Len(s) : PlaceholderAt(s, i) }

\* C1: every deferred placeholder [A] of the template's markup is in the
\* HTML a successful render or preview returns, brackets and casing intact,
\* whether or not the mapping has a key "A".
C1_PlaceholdersPassThrough ==
    ((IsRender \/ IsPreview) /\ res.status = 200) =>
        /\ res.html.present
        /\ Cardinality(PlaceholdersIn(res.html.text)) >= Cardinality(PlaceholdersIn(Markup))

C1_Witness ==
    /\ IsRender /\ res.status = 200
    /\ PlaceholdersIn(Markup) # {}
    /\ <<"A">> \in DOMAIN VenueRecord
    /\ PlaceholdersIn(res.html.text) # {}

\* C2: compiling a well-formed template never fails for a missing key: a
\* {{k}} with k outside the mapping yields nothing, a {{k}} with k in the
\* mapping yields the mapping's value unescaped.
C2_MissingKeyIsEmpty ==
    ((IsRender \/ IsPreview) /\ TemplateExists /\ VenueExists
        /\ WellFormed(req.templateKey)) =>
        LET m == IF IsPreview THEN resolve(VenueRecord, req.overrides)
                 ELSE VenueRecord
        IN  /\ res.status = 200
            /\ res.error = NoError
            /\ res.html = Html(inlineCss(ExpectedHtml(req.templateKey, m)))

C2_Witness ==
    /\ IsRender /\ res.status = 200
    /\ req.templateKey = <<1, 2>>
    /\ DOMAIN VenueRecord = { <<"A">> }
    /\ VenueRecord[<<"A">>] = <<"&">>
    /\ res.html.text = <<"&">>

\* The right-biased shallow merge of a venue record and overrides.
RightBiased(base, over) ==
    [k \in DOMAIN base \cup DOMAIN over |->
        IF k \in DOMAIN over THEN over[k] ELSE base[k]]

\* C3: the mapping a preview renders from is the right-biased shallow merge
\* of the venue record and the overrides: the union of the keys, the
\* override's value where the override has the key, the record's elsewhere.
C3_PreviewMergeRightBiased ==
    (IsPreview /\ TemplateExists /\ VenueExists /\ req.overrides.given) =>
        LET over == req.overrides.value
            m == resolve(VenueRecord, req.overrides)
        IN  /\ DOMAIN m = DOMAIN VenueRecord \cup DOMAIN over
            /\ \A k \in DOMAIN over : m[k] = over[k]
            /\ \A k \in DOMAIN VenueRecord \ DOMAIN over : m[k] = VenueRecord[k]
            /\ WellFormed(req.templateKey) =>
                   res.html = Html(inlineCss(ExpectedHtml(req.templateKey,
                                      RightBiased(VenueRecord, over))))

C3_Witness ==
    /\ IsPreview /\ res.status = 200
    /\ req.templateKey = <<1, 2>>
    /\ DOMAIN VenueRecord = { <<"a">>, <<"A">> }
    /\ DOMAIN req.overrides.value = { <<"a">> }
    /\ req.overrides.value[<<"a">>] # VenueRecord[<<"a">>]
    /\ res.html.text = req.overrides.value[<<"a">>] \o VenueRecord[<<"A">>]

\* C4: resolving with empty overrides ({}), or with absent ones, yields the
\* venue record itself.
C4_EmptyOverridesIdentity ==
    (IsPreview /\ TemplateExists /\ VenueExists
        /\ OrEmpty(req.overrides) = EmptyMapping) =>
        /\ resolve(VenueRecord, req.overrides) = VenueRecord
        /\ WellFormed(req.templateKey) =>
               res.html = Html(inlineCss(ExpectedHtml(req.templateKey, VenueRecord)))

C4_Witness ==
    /\ IsPreview /\ res.status = 200
    /\ req.overrides.given /\ req.overrides.value = EmptyMapping
    /\ req.templateKey = <<1>>
    /\ VenueRecord # EmptyMapping
    /\ res.html.text = ValueIn(VenueRecord, <<"a">>)
    /\ res.html.text # <<>>

\* C5: once save(v, M) has completed, load(v) returns M whatever record v
\* held before: no key of the prior record that M lacks survives.
C5_SaveThenLoad ==
    req.op = "putVenue" =>
        /\ loadVenue(venueFiles, req.venueKey) = Ok(req.payload)
        /\ getVenue(venueFiles, req.venueKey)
               = Response(200, NoHtml, NoError, req.payload)

C5_Witness ==
    /\ req.op = "putVenue"
    /\ req.prior.exists
    /\ DOMAIN JsonObject(req.prior.data) \ DOMAIN req.payload # {}
    /\ loadVenue(venueFiles, req.venueKey).value = req.payload

\* C6: a save to a venue key without a record succeeds and creates it: the
\* key then loads with the saved mapping and is in the list of venues.
C6_SaveIsUpsert ==
    (req.op = "putVenue" /\ ~req.prior.exists) =>
        /\ res = Response(200, NoHtml, NoError, [ok |-> TRUE])
        /\ getVenue(venueFiles, req.venueKey)
               = Response(200, NoHtml, NoError, req.payload)
        /\ req.venueKey \in listVenues(venueFiles)

C6_Witness ==
    /\ req.op = "putVenue" /\ ~req.prior.exists
    /\ req.venueKey = "Unknown"
    /\ venueFiles["Unknown"].exists
    /\ res.status = 200

\* C7: a render whose venue key has no record, or whose template key has
\* no template, fails with the not-found error of a missing file and
\* returns no HTML.
C7_RenderNotFound ==
    (IsRender /\ (~VenueExists \/ ~TemplateExists)) =>
        /\ res.status = 500
        /\ res.error.name = "ENOENT"
        /\ res.error.dir \in
               (IF VenueExists THEN {} ELSE {"venues"})
                   \cup (IF TemplateExists THEN {} ELSE {"templates"})
        /\ ~res.html.present

C7_Witness ==
    /\ IsRender /\ req.venueKey = "Unknown" /\ ~VenueExists
    /\ TemplateExists
    /\ res.error = ENOENT("venues")

\* C8: a render or preview answers with the complete inlined HTML when
\* every stage succeeds, and with an error and no HTML at all when the
\* template load, the venue load or the compile fails.
C8_NoPartialRender ==
    (IsRender \/ IsPreview) =>
        IF TemplateExists /\ VenueExists /\ WellFormed(req.templateKey)
        THEN /\ res.status = 200
             /\ res.html.present
             /\ res.html.text =
                    inlineCss(ExpectedHtml(req.templateKey,
                        RightBiased(VenueRecord, OrEmpty(req.overrides))))
        ELSE /\ res.status = 500
             /\ res.error # NoError
             /\ res.html = NoHtml

C8_Witness ==
    /\ IsPreview /\ TemplateExists /\ VenueExists
    /\ ~WellFormed(req.templateKey)
    /\ Len(req.templateKey) = 2 /\ req.templateKey[1] = 3
    /\ res.status = 500 /\ res.error = ParseError

\* The response of a schema load that finds no schema.
SchemaAbsent == Response(200, NoHtml, NoError, SchemaNull)

\* C9: the schema load of a template that exists without a schema answers
\* "absent" without error, and a schema load whose template key resolves to
\* no template answers something else.
C9_SchemaAbsentDistinguished ==
    req.op = "getSchema" =>
        /\ (TemplateExists /\ ~schemaFiles(req.templateKey).exists)
               => res = SchemaAbsent
        /\ ~TemplateExists => res # SchemaAbsent

\* C10: a preview of an existing template with overrides supplied does not
\* fail for lack of the venue record.
C10_PreviewNeedsNoVenue ==
    (IsPreview /\ TemplateExists /\ ~VenueExists
        /\ req.overrides.given /\ req.overrides.value # EmptyMapping) =>
        res.error # ENOENT("venues")

\* C11: a render or preview of a template with an unbalanced "{{" fails
\* with a syntax error that identifies the template key, and returns no
\* HTML.
C11_SyntaxErrorNamesTemplate ==
    ((IsRender \/ IsPreview) /\ TemplateExists /\ VenueExists
        /\ ~WellFormed(req.templateKey)) =>
        /\ res.status = 500
        /\ res.html = NoHtml
        /\ res.error = ParseError
        /\ MessageNamesKey(res.error)

\* The responses a render or preview may give when only the template and
\* the venue record (with the overrides) decide.
SchemaFreeResponses ==
    IF TemplateExists /\ VenueExists /\ WellFormed(req.templateKey)
    THEN { Response(200,
                    Html(inlineCss(ExpectedHtml(req.templateKey,
                        RightBiased(VenueRecord, OrEmpty(req.overrides))))),
                    NoError, NoData) }
    ELSE { Response(500, NoHtml, e, NoData) :
             e \in (IF TemplateExists THEN {} ELSE {ENOENT("templates")})
                   \cup (IF VenueExists THEN {} ELSE {ENOENT("venues")})
                   \cup (IF TemplateExists /\ VenueExists THEN {ParseError} ELSE {}) }

\* C13: the schema is no gate: whatever data/schemas holds for the
\* template (no schema, a schema whose fields the venue record lacks, a
\* schema replaced after the record was saved), a render or preview gives
\* the response the template and the venue record alone decide.
C13_SchemaIsNoGate == (IsRender \/ IsPreview) => res \in SchemaFreeResponses

C13_Witness ==
    /\ IsRender /\ req.templateKey = <<1>> /\ req.venueKey = "SoulBar"
    /\ schemaFiles(<<1>>).exists
    /\ schemas # DeployedSchemas
    /\ saved["SoulBar"].payload = VenueRecord
    /\ <<"a">> \in DOMAIN VenueRecord
    /\ DOMAIN JsonObject(schemaFiles(<<1>>).data) \ DOMAIN VenueRecord # {}
    /\ res.status = 200
    /\ res.html.text = VenueRecord[<<"a">>]

\* C14: nothing is cached: a render or preview that starts after the save
\* of mapping M under a venue key has completed, with no later save of that
\* key, is computed from M (and the overrides), whatever was stored or
\* rendered before.
C14_ReadsLastSave ==
    ((IsRender \/ IsPreview) /\ req.venueKey \in VenueKeys
        /\ saved[req.venueKey].written
        /\ TemplateExists /\ WellFormed(req.templateKey)) =>
        res = Response(200,
                       Html(inlineCss(ExpectedHtml(req.templateKey,
                           RightBiased(saved[req.venueKey].payload,
                                       OrEmpty(req.overrides))))),
                       NoError, NoData)

C14_Witness ==
    /\ IsRender /\ req.venueKey = "Unknown" /\ req.templateKey = <<1, 2>>
    /\ saved["Unknown"].written
    /\ DOMAIN saved["Unknown"].payload = VarKeys
    /\ saved["Unknown"].payload # saved["SoulBar"].payload
    /\ res.status = 200
    /\ res.html.text = saved["Unknown"].payload[<<"a">>]
                            \o saved["Unknown"].payload[<<"A">>]

\* The <p> start tag carrying the declaration of the rule p{color:red}, as
\* juice serialises it.
StyledP == "<p style=\"color: red;\">"

StyleBlock == <<"<style>", "p{color:red}", "</style>">>

HasStyleSegment(templateKey) ==
    \E i \in 1..Len(templateKey) : Segments[templateKey[i]] = StyleBlock

\* C15: a rendered template with the style block <style>p{color:red}</style>
\* comes out with the declaration on the style attribute of every <p> and
\* with the style block still in place; without a style block the <p>
\* elements are left as they are.
C15_InlineKeepsStyleBlock ==
    ((IsRender \/ IsPreview) /\ res.status = 200) =>
        LET src == ExpectedHtml(req.templateKey,
                                RightBiased(VenueRecord, OrEmpty(req.overrides)))
            out == res.html.text
        IN  /\ Len(out) = Len(src)
            /\ \A i \in 1..Len(src) :
                 /\ src[i] \in {"<style>", "p{color:red}", "</style>"} => out[i] = src[i]
                 /\ src[i] = "<p>" =>
                      out[i] = IF HasStyleSegment(req.templateKey) THEN StyledP ELSE "<p>"
                 /\ src[i] # "<p>" => out[i] = src[i]

C15_Witness ==
    /\ IsRender /\ req.templateKey = <<6, 4>>
    /\ res.status = 200
    /\ res.html.text = StyleBlock \o <<StyledP>>

\* C17: the stores change only through a save and only at the saved key:
\* a step that changes the file of a venue key is the PUT of that key, no
\* step changes data/schemas, and so a preview leaves every record as it
\* was, its overrides included.  (data/templates is read-only in the
\* model as in the server: templateFiles is not a variable.)
C17_OnlySaveWrites ==
    [][ /\ \A k \in VenueKeys :
             venueFiles'[k] # venueFiles[k] =>
                 (req'.op = "putVenue" /\ req'.venueKey = k /\ req # req')
        /\ schemas' = schemas
        /\ req'.op = "preview" => venueFiles' = venueFiles ]_vars

C17_Witness ==
    /\ IsPreview /\ res.status = 200
    /\ req.venueKey = "SoulBar"
    /\ req.overrides.given
    /\ \E k \in DOMAIN req.overrides.value :
         k \in DOMAIN VenueRecord /\ req.overrides.value[k] # VenueRecord[k]
    /\ VenueRecord = saved["SoulBar"].payload
    /\ venueFiles["Unknown"] = NoFile

\* C18: a preview whose overrides are absent or empty gives the result of
\* render for the same template key and venue key: it succeeds exactly
\* when render does, and then with the same HTML.
C18_PreviewIsRender ==
    (IsPreview /\ OrEmpty(req.overrides) = EmptyMapping) =>
        LET rendered == render(venueFiles, req.templateKey, req.venueKey)
        IN  /\ rendered # {}
            /\ \A r \in rendered :
                 /\ (r.status = 200) = (res.status = 200)
                 /\ r.html = res.html

C18_Witness ==
    /\ IsPreview /\ ~req.overrides.given
    /\ req.templateKey = <<2, 4>>
    /\ <<"A">> \in DOMAIN VenueRecord /\ VenueRecord[<<"A">>] = <<"&">>
    /\ res.status = 200
    /\ res.html.text = <<"&", "<p>">>

\* A preview with no overrides that fails as render does.
C18_WitnessFailure ==
    /\ IsPreview /\ req.overrides = [given |-> TRUE, value |-> EmptyMapping]
    /\ req.venueKey = "Unknown" /\ ~VenueExists /\ TemplateExists
    /\ res.status = 500

\* C16: after a full run of the build script that succeeds (TEST_ONLY not
\* set), the ZIP and the TAR.GZ archive both hold the three deployment
\* guides next to the app directory.
C16_ArchivesHoldGuides ==
    (build.exit = "ok" /\ ~build.testOnly) =>
        /\ deploymentGuides \cup {"app"} \subseteq build.zip
        /\ deploymentGuides \cup {"app"} \subseteq build.tar

\* No PUT of the venue key is between its arrival and its answer.
NoSaveInFlight(k) ==
    \A w \in Writers : saves[w].venueKey = k => saves[w].pc = "idle"

\* C12: when the saves of one venue key have all been answered, each has
\* reported success and the record on disk is exactly the mapping of the
\* save whose write completed last, also when two of them overlapped.
C12_LastWriteWins ==
    \A k \in VenueKeys :
        (NoSaveInFlight(k) /\ saved[k].written) =>
            /\ \A w \in Writers :
                 (saves[w].venueKey = k /\ saves[w] # IdleSave) => saves[w].status = 200
            /\ loadVenue(venueFiles, k) = Ok(saved[k].payload)

\* Nothing of the editor is pending: no timer runs and every request has
\* been answered.
EditorStable ==
    /\ ~editor.listPending /\ ~editor.timer
    /\ editor.loads = {} /\ editor.previews = {}

\* C19: once the user has stopped changing venue, template and values and
\* every preview response has arrived, the HTML shown is the response to
\* the request made with the latest venue, template key and values.
C19_LatestPreviewShown ==
    (EditorStable /\ editor.venue # "") =>
        editor.html.request =
            PreviewRequest(editor.templateKey, editor.venue, editor.values)

\* C20: Save Venue JSON writes, under the selected venue key, values that
\* were loaded from that venue (plus later edits), never values loaded
\* from another venue or from none.
C20_SaveWritesOwnValues ==
    [][ venueFiles' # venueFiles => editor.origin = editor.venue ]_vars

\* The mappings a request for venue key k may be computed from: the one of
\* the last completed write, and the body of each save of k that has
\* arrived and not yet answered.
RecordsAround(k) ==
    { saved[k].payload }
        \cup { saves[w].payload :
                  w \in { x \in Writers : saves[x].venueKey = k /\ saves[x].pc # "idle" } }

\* C21: a render or preview handled while a save of its venue key is
\* running succeeds, and is computed from the whole record held before the
\* save or from the whole record the save writes.  (Stated for a single
\* saving request, the second one never having arrived, so that no two
\* saves overlap.)
C21_ReaderSeesWholeRecord ==
    [][ ( /\ <<req, res>>' # <<req, res>>
          /\ req'.op \in {"render", "preview"}
          /\ saved[req'.venueKey].written
          /\ saves["second"] = IdleSave ) =>
            res' \in { Response(200,
                                Html(inlineCss(ExpectedHtml(req'.templateKey, m))),
                                NoError, NoData) :
                          m \in RecordsAround(req'.venueKey) } ]_vars

====
